---- MODULE Spec2Model ----
(***************************************************************************)
(* Flight schedule parser (lab2.py): record validation, ingestion of CSV   *)
(* sources, query matching and the command line entry point.               *)
(*                                                                         *)
(* Python str values that the code inspects character by character are     *)
(* sequences of one-character strings; messages the code only builds and   *)
(* passes on are TLA+ strings.  None is the empty sequence and a present   *)
(* value x is <<x>>.                                                       *)
(***************************************************************************)
EXTENDS Integers, Sequences, FiniteSets, TLC

VARIABLES
    pc,        \* control location of the running call
    stack,     \* control locations the running calls return to
    modname,   \* the value of __name__ when lab2.py is executed
    args,      \* argparse namespace: input, directory, output, json_db, query
    env,       \* the environment: the lines files hold, the query file, the stored db
    line,      \* validate_flight_row: the argument line
    ret,       \* validate_flight_row: the returned pair
    todo,      \* parse_input_sources: paths still to be parsed
    path,      \* parse_csv_file: the file being read (<<>> when none)
    line_number, \* parse_csv_file: enumerate(f, start=1), last value yielded
    valid,     \* parse_input_sources: valid flights accumulated
    errors,    \* parse_input_sources: error lines accumulated
    opened,    \* history: lengths of valid/errors when parse_csv_file was entered
    log,       \* history: one entry per parse_csv_file call that has ended
    nread,     \* history: lines read so far, over all files
    db,        \* main: the Store
    queries,   \* run_queries_and_save: the loaded queries
    results,   \* run_queries_and_save: results accumulated
    flight,    \* flight_matches_query: the argument flight
    q,         \* flight_matches_query: the argument query
    matched,   \* flight_matches_query: the returned value (<<>> before the call)
    stdout,    \* lines printed
    files,     \* files written: name -> content
    exit_code, \* process exit status (<<>> while running)
    used_csv   \* main: whether the db was built from csv sources

vars == <<pc, stack, modname, args, env, line, ret, todo, path, line_number,
          valid, errors, opened, log, nread, db, queries, results, flight, q,
          matched, stdout, files, exit_code, used_csv>>

given == <<modname, args, env>>
query_state == <<db, queries, results, flight, q, matched>>
process_state == <<stdout, files, exit_code, used_csv>>

None == <<>>
Some(x) == <<x>>

-----------------------------------------------------------------------------
(* Characters and the str methods the code uses                            *)

UpperSeq == <<"A","B","C","D","E","F","G","H","I","J","K","L","M",
              "N","O","P","Q","R","S","T","U","V","W","X","Y","Z">>
LowerSeq == <<"a","b","c","d","e","f","g","h","i","j","k","l","m",
              "n","o","p","q","r","s","t","u","v","w","x","y","z">>
DigitSeq == <<"0","1","2","3","4","5","6","7","8","9">>

Range(s) == {s[i] : i \in DOMAIN s}
Upper == Range(UpperSeq)
Lower == Range(LowerSeq)
Digit == Range(DigitSeq)
Whitespace == {" ", "\t", "\n", "\r"}

DigitVal(c) == (CHOOSE i \in DOMAIN DigitSeq : DigitSeq[i] = c) - 1

\* str.lower() of one character
lower(c) == IF c \in Upper
            THEN LowerSeq[CHOOSE i \in DOMAIN UpperSeq : UpperSeq[i] = c]
            ELSE c

RECURSIVE lstrip(_)
lstrip(s) == IF s # <<>> /\ s[1] \in Whitespace THEN lstrip(Tail(s)) ELSE s

RECURSIVE rstrip(_)
rstrip(s) == IF s # <<>> /\ s[Len(s)] \in Whitespace
             THEN rstrip(SubSeq(s, 1, Len(s) - 1))
             ELSE s

\* strip() that leaves trailing whitespace in place
strip_leading_only(s) == lstrip(s)

\* str.strip()
strip(s) == rstrip(lstrip(s))

\* str.split(","): the pieces between the separators, "" split gives [""]
RECURSIVE split(_, _)
split(s, sep) ==
    IF \E i \in DOMAIN s : s[i] = sep
    THEN LET i == CHOOSE i \in DOMAIN s :
                     s[i] = sep /\ \A j \in 1..(i - 1) : s[j] # sep
         IN  <<SubSeq(s, 1, i - 1)>> \o split(SubSeq(s, i + 1, Len(s)), sep)
    ELSE <<s>>

isalnum(s) == s # <<>> /\ \A i \in DOMAIN s : s[i] \in Upper \cup Lower \cup Digit
isalpha(s) == s # <<>> /\ \A i \in DOMAIN s : s[i] \in Upper \cup Lower
isupper(s) == (\E i \in DOMAIN s : s[i] \in Upper) /\ ~(\E i \in DOMAIN s : s[i] \in Lower)

\* s.startswith(prefix)
startswith(s, prefix) ==
    Len(prefix) <= Len(s) /\ SubSeq(s, 1, Len(prefix)) = prefix

\* The characters of a literal
Chars(str) == [i \in 1..Len(str) |-> SubSeq(str, i, i)]

\* needle in s
contains(s, needle) ==
    \E i \in 1..(Len(s) - Len(needle) + 1) :
        SubSeq(s, i, i + Len(needle) - 1) = needle

\* The characters of s as they appear in an f-string or in repr()
RECURSIVE Text(_)
Text(s) == IF s = <<>> THEN "" ELSE s[1] \o Text(Tail(s))

\* "; ".join(reasons)
RECURSIVE join(_, _)
join(sep, reasons) ==
    IF reasons = <<>> THEN ""
    ELSE IF Len(reasons) = 1 THEN reasons[1]
    ELSE reasons[1] \o sep \o join(sep, Tail(reasons))

-----------------------------------------------------------------------------
(* Field validators                                                        *)

is_alnum_len(value, min_len, max_len) ==
    isalnum(value) /\ min_len <= Len(value) /\ Len(value) <= max_len

is_airport_code(value) ==
    Len(value) = 3 /\ isupper(value) /\ isalpha(value)

-----------------------------------------------------------------------------
(* datetime.strptime(value, "%Y-%m-%d %H:%M")                              *)
(*                                                                         *)
(* strptime compiles the format to the regular expression                  *)
(*   (\d\d\d\d)-(1[0-2]|0[1-9]|[1-9])-(3[0-1]|[1-2]\d|0[1-9]|[1-9]| [1-9]) *)
(*   \s+(2[0-3]|[0-1]\d|\d):([0-5]\d|\d)                                   *)
(* matches it at the start of the string, fails when characters remain     *)
(* after the match, and then builds the date, which fails for a day the    *)
(* month does not have and for year 0.                                     *)

In(s, i, set) == i \in DOMAIN s /\ s[i] \in set

\* One alternative of a directive: <<value, position after it>>, or nothing
TwoDigits(s, i, first, second) ==
    IF In(s, i, first) /\ In(s, i + 1, second)
    THEN << <<10 * DigitVal(s[i]) + DigitVal(s[i + 1]), i + 2>> >>
    ELSE <<>>

OneDigit(s, i, set) ==
    IF In(s, i, set) THEN << <<DigitVal(s[i]), i + 1>> >> ELSE <<>>

NonZero == Digit \ {"0"}

\* The alternatives of each directive that match at i, in the order tried
directive_m(s, i) ==
    TwoDigits(s, i, {"1"}, {"0", "1", "2"}) \o TwoDigits(s, i, {"0"}, NonZero)
        \o OneDigit(s, i, NonZero)

directive_d(s, i) ==
    TwoDigits(s, i, {"3"}, {"0", "1"}) \o TwoDigits(s, i, {"1", "2"}, Digit)
        \o TwoDigits(s, i, {"0"}, NonZero) \o OneDigit(s, i, NonZero)
        \o (IF In(s, i, {" "}) /\ In(s, i + 1, NonZero)
            THEN << <<DigitVal(s[i + 1]), i + 2>> >> ELSE <<>>)

directive_H(s, i) ==
    TwoDigits(s, i, {"2"}, {"0", "1", "2", "3"}) \o TwoDigits(s, i, {"0", "1"}, Digit)
        \o OneDigit(s, i, Digit)

directive_M(s, i) ==
    TwoDigits(s, i, {"0", "1", "2", "3", "4", "5"}, Digit) \o OneDigit(s, i, Digit)

\* \s+ is greedy: the position after the run of whitespace starting at i
RECURSIVE ws_end(_, _)
ws_end(s, i) == IF In(s, i, Whitespace) THEN ws_end(s, i + 1) ELSE i

\* The first alternative after which the rest of the pattern matches is the
\* one the regex engine settles on: tries[k] is the match through
\* alternative k, or None.
first_match(tries) ==
    IF \A k \in DOMAIN tries : tries[k] = None THEN None
    ELSE tries[CHOOSE k \in DOMAIN tries :
                   tries[k] # None /\ \A j \in 1..(k - 1) : tries[j] = None]

\* A match of the rest of the pattern, with one more group
with_group(name, value, rest) ==
    IF rest = None THEN None ELSE Some((name :> value) @@ rest[1])

\* ([0-5]\d|\d) and the end of the pattern
rest_M(s, i) ==
    first_match([k \in DOMAIN directive_M(s, i) |->
        Some([M |-> directive_M(s, i)[k][1], end |-> directive_M(s, i)[k][2]])])

H_tries(s, alts) ==
    [k \in DOMAIN alts |->
        IF In(s, alts[k][2], {":"})
        THEN with_group("H", alts[k][1], rest_M(s, alts[k][2] + 1))
        ELSE None]

rest_H(s, i) == first_match(H_tries(s, directive_H(s, i)))

rest_ws(s, i) == IF In(s, i, Whitespace) THEN rest_H(s, ws_end(s, i)) ELSE None

d_tries(s, alts) ==
    [k \in DOMAIN alts |-> with_group("d", alts[k][1], rest_ws(s, alts[k][2]))]

rest_d(s, i) == first_match(d_tries(s, directive_d(s, i)))

m_tries(s, alts) ==
    [k \in DOMAIN alts |->
        IF In(s, alts[k][2], {"-"})
        THEN with_group("m", alts[k][1], rest_d(s, alts[k][2] + 1))
        ELSE None]

rest_m(s, i) == first_match(m_tries(s, directive_m(s, i)))

regex_match(s) ==
    IF (\A i \in 1..4 : In(s, i, Digit)) /\ In(s, 5, {"-"})
    THEN with_group("Y", 1000 * DigitVal(s[1]) + 100 * DigitVal(s[2])
                             + 10 * DigitVal(s[3]) + DigitVal(s[4]),
                    rest_m(s, 6))
    ELSE None

is_leap(year) == (year % 4 = 0 /\ year % 100 # 0) \/ year % 400 = 0

days_in_month(year, month) ==
    IF month = 2 THEN (IF is_leap(year) THEN 29 ELSE 28)
    ELSE IF month \in {4, 6, 9, 11} THEN 30 ELSE 31

\* What strptime makes of the match: None when it raises ValueError
datetime_of(s, found) ==
    IF found = None THEN None
    ELSE IF found[1].end # Len(s) + 1 THEN None
    ELSE IF found[1].Y < 1 \/ found[1].d > days_in_month(found[1].Y, found[1].m)
    THEN None
    ELSE Some([Y |-> found[1].Y, m |-> found[1].m, d |-> found[1].d,
               H |-> found[1].H, M |-> found[1].M])

strptime(s) == datetime_of(s, regex_match(s))

parse_datetime(value) == strptime(value)

\* a < b on tuples of numbers of one length, the first difference deciding
tuple_lt(a, b) ==
    \E i \in DOMAIN a : a[i] < b[i] /\ \A j \in 1..(i - 1) : a[j] = b[j]

\* a < b, a <= b on datetimes
datetime_lt(a, b) == tuple_lt(<<a.Y, a.m, a.d, a.H, a.M>>, <<b.Y, b.m, b.d, b.H, b.M>>)
datetime_le(a, b) == datetime_lt(a, b) \/ a = b

-----------------------------------------------------------------------------
(* float(value) and validate_price                                         *)
(*                                                                         *)
(* A float is finite (num / den, den a power of ten, in lowest such form), *)
(* an infinity or nan.  The literals read are those made of a sign, digits *)
(* and a point, and the words nan, inf and infinity; exponents and digit   *)
(* group underscores do not occur in the inputs drawn here.                *)

Fin(num, den) == [kind |-> "fin", num |-> num, den |-> den]
Inf(sign) == [kind |-> "inf", num |-> sign, den |-> 1]
NaN == [kind |-> "nan", num |-> 0, den |-> 1]

RECURSIVE reduce(_, _)
reduce(num, den) ==
    IF den > 1 /\ num % 10 = 0 THEN reduce(num \div 10, den \div 10) ELSE Fin(num, den)

RECURSIVE digits_value(_)
digits_value(s) ==
    IF s = <<>> THEN 0
    ELSE 10 * digits_value(SubSeq(s, 1, Len(s) - 1)) + DigitVal(s[Len(s)])

RECURSIVE pow10(_)
pow10(n) == IF n = 0 THEN 1 ELSE 10 * pow10(n - 1)

\* a > b, a <= b on floats: every comparison with nan is false
float_lt(a, b) ==
    /\ a.kind # "nan" /\ b.kind # "nan"
    /\ \/ a.kind = "inf" /\ a.num < 0 /\ ~(b.kind = "inf" /\ b.num < 0)
       \/ b.kind = "inf" /\ b.num > 0 /\ ~(a.kind = "inf" /\ a.num > 0)
       \/ a.kind = "fin" /\ b.kind = "fin" /\ a.num * b.den < b.num * a.den

float_eq(a, b) == a.kind # "nan" /\ b.kind # "nan" /\ a = b
float_gt(a, b) == float_lt(b, a)
float_le(a, b) == float_lt(a, b) \/ float_eq(a, b)
float_ge(a, b) == float_le(b, a)

Zero == Fin(0, 1)

\* The value of a literal without its sign, None when it is none
unsigned_float(sign, body, word, dots) ==
    LET point == IF dots = {} THEN Len(body) + 1 ELSE CHOOSE i \in dots : TRUE
        whole == SubSeq(body, 1, point - 1)
        frac == SubSeq(body, point + 1, Len(body))
    IN  IF word = Chars("nan") THEN Some(NaN)
        ELSE IF word \in {Chars("inf"), Chars("infinity")} THEN Some(Inf(sign))
        ELSE IF /\ Cardinality(dots) <= 1
                /\ Len(whole) + Len(frac) >= 1
                /\ \A i \in DOMAIN body : i \in dots \/ body[i] \in Digit
        THEN Some(reduce(sign * digits_value(whole \o frac), pow10(Len(frac))))
        ELSE None

signed_float(sign, body) ==
    unsigned_float(sign, body, [i \in DOMAIN body |-> lower(body[i])],
                   {i \in DOMAIN body : body[i] = "."})

stripped_float(t) ==
    IF t # <<>> /\ t[1] \in {"+", "-"}
    THEN signed_float(IF t[1] = "-" THEN -1 ELSE 1, Tail(t))
    ELSE signed_float(1, t)

\* float(str): None when it raises ValueError
float_of_str(value) == stripped_float(strip(value))

\* repr() of a str without quotes, backslashes or control characters
repr(value) == "'" \o Text(value) \o "'"

\* What validate_price does with p = float(value): it raises with a message
\* or returns p
price_result(value, p) ==
    IF p = None
    THEN [raised |-> TRUE, p |-> NaN,
          msg |-> "could not convert string to float: " \o repr(value)]
    ELSE IF float_le(p[1], Zero)
    THEN [raised |-> TRUE, p |-> NaN, msg |-> "price must be positive"]
    ELSE [raised |-> FALSE, p |-> p[1], msg |-> ""]

validate_price(value) == price_result(value, float_of_str(value))

-----------------------------------------------------------------------------
(* Values of a dict that json reads and writes: a str or a number          *)

JStr(s) == [t |-> "str", s |-> s, n |-> NaN]
JNum(x) == [t |-> "num", s |-> <<>>, n |-> x]

-----------------------------------------------------------------------------
(* validate_flight_row                                                     *)

\* The reasons each check appends to errors: none or one
flight_id_errors(flight_id) ==
    IF ~is_alnum_len(flight_id, 2, 8) THEN <<"invalid flight_id">> ELSE <<>>

origin_errors(origin) ==
    IF ~is_airport_code(origin) THEN <<"invalid origin">> ELSE <<>>

destination_errors(destination) ==
    IF ~is_airport_code(destination) THEN <<"invalid destination">> ELSE <<>>

departure_errors(dep_dt) ==
    IF dep_dt = None THEN <<"invalid departure_datetime">> ELSE <<>>

arrival_errors(arr_dt) ==
    IF arr_dt = None THEN <<"invalid arrival_datetime">> ELSE <<>>

\* arr_dt < dep_dt in place of arr_dt <= dep_dt
order_errors_strict(dep_dt, arr_dt) ==
    IF dep_dt # None /\ arr_dt # None /\ datetime_lt(arr_dt[1], dep_dt[1])
    THEN <<"arrival must be after departure">> ELSE <<>>

\* if dep_dt and arr_dt and arr_dt <= dep_dt (a datetime is never false)
order_errors(dep_dt, arr_dt) ==
    IF dep_dt # None /\ arr_dt # None /\ datetime_le(arr_dt[1], dep_dt[1])
    THEN <<"arrival must be after departure">> ELSE <<>>

price_errors(price) == IF price.raised THEN <<price.msg>> ELSE <<>>

\* The checks stopping at the first one that fails
first_error_only(f, dep_dt, arr_dt, price) ==
    IF flight_id_errors(f[1]) # <<>> THEN flight_id_errors(f[1])
    ELSE IF origin_errors(f[2]) # <<>> THEN origin_errors(f[2])
    ELSE IF destination_errors(f[3]) # <<>> THEN destination_errors(f[3])
    ELSE IF departure_errors(dep_dt) # <<>> THEN departure_errors(dep_dt)
    ELSE IF arrival_errors(arr_dt) # <<>> THEN arrival_errors(arr_dt)
    ELSE IF order_errors(dep_dt, arr_dt) # <<>> THEN order_errors(dep_dt, arr_dt)
    ELSE price_errors(price)

\* The list errors at line 72, from the six trimmed fields and what the
\* parsers made of the last three
collected_errors(f, dep_dt, arr_dt, price) ==
    flight_id_errors(f[1]) \o origin_errors(f[2]) \o destination_errors(f[3])
        \o departure_errors(dep_dt) \o arrival_errors(arr_dt)
        \o order_errors(dep_dt, arr_dt) \o price_errors(price)

row_errors(f) ==
    collected_errors(f, parse_datetime(f[4]), parse_datetime(f[5]), validate_price(f[6]))

\* len(parts) < 6 in place of len(parts) != 6
missing_fields_fewer_only(parts) == Len(parts) < 6

\* len(parts) != 6
missing_fields(parts) == Len(parts) # 6

\* Lines 72 to 82: the pair returned for the six trimmed fields
row_result(f, errs, price) ==
    IF errs # <<>>
    THEN [flight |-> None, err |-> Some(join("; ", errs))]
    ELSE [flight |-> Some([flight_id |-> JStr(f[1]),
                           origin |-> JStr(f[2]),
                           destination |-> JStr(f[3]),
                           departure_datetime |-> JStr(f[4]),
                           arrival_datetime |-> JStr(f[5]),
                           price |-> JNum(price.p)]),
          err |-> None]

split_row(parts) ==
    IF missing_fields(parts)
    THEN [flight |-> None, err |-> Some("missing required fields")]
    ELSE row_result([i \in 1..6 |-> strip(parts[i])],
                    row_errors([i \in 1..6 |-> strip(parts[i])]),
                    validate_price(strip(parts[6])))

\* The pair (flight, err) returned
validate_flight_row(ln, n) == split_row(split(strip(ln), ","))

-----------------------------------------------------------------------------
(* Ordering of str, sorted(), and the files of the environment             *)

\* The characters used, in code point order
CodePoints == <<"\t", "\n", "\r">>
    \o Chars(" #*+,-./0123456789:ABCDEFGHIJKLMNOPQRSTUVWXYZ_abcdefghijklmnopqrstuvwxyz")

ord(c) == CHOOSE i \in DOMAIN CodePoints : CodePoints[i] = c

\* a < b on str
RECURSIVE str_lt(_, _)
str_lt(a, b) ==
    IF b = <<>> THEN FALSE
    ELSE IF a = <<>> THEN TRUE
    ELSE IF a[1] = b[1] THEN str_lt(Tail(a), Tail(b))
    ELSE ord(a[1]) < ord(b[1])

\* sorted(names)
RECURSIVE sorted(_)
sorted(names) ==
    IF names = {} THEN <<>>
    ELSE LET least == CHOOSE a \in names : \A b \in names \ {a} : str_lt(a, b)
         IN  <<least>> \o sorted(names \ {least})

\* os.path.join(folder, "*.csv") for a folder without a trailing separator
path_join(folder, name) == folder \o <<"/">> \o name

InputFile == Chars("in.csv")
Folder == Chars("data")
FolderFiles == {Chars("data/b.csv"), Chars("data/a.csv")}

\* glob.glob(pattern): the one folder of the environment holds FolderFiles
glob(pattern) == IF pattern = path_join(Folder, Chars("*.csv")) THEN FolderFiles ELSE {}

\* Truth value of an optional str: None and "" are false
truthy(opt) == opt # None /\ opt[1] # <<>>

-----------------------------------------------------------------------------
(* Calls and returns                                                       *)

Call(target, return_to) == pc' = target /\ stack' = <<return_to>> \o stack
Return == pc' = Head(stack) /\ stack' = Tail(stack)

-----------------------------------------------------------------------------
(* parse_csv_file(path, valid_flights, error_lines)                        *)

MaxRead == 2

error_line(n, s, reason) == "Line " \o ToString(n) \o ": " \o Text(s) \o " -> " \o reason

NoReturn == [flight |-> None, err |-> None]

\* "flight_id" in s, whatever the line number
is_header_on_any_line(n, s) == contains(s, Chars("flight_id"))

\* line_number == 1 and "flight_id" in s
is_header(n, s) == n = 1 /\ contains(s, Chars("flight_id"))

\* The body of the for loop for the line whose strip() is s and for which
\* validate_flight_row, when called, returns r: the new valid and errors,
\* and r when the line got that far
line_outcome(n, s, r, v, e) ==
    IF s = <<>> THEN [valid |-> v, errors |-> e, ret |-> NoReturn]
    ELSE IF is_header(n, s) THEN [valid |-> v, errors |-> e, ret |-> NoReturn]
    ELSE IF startswith(s, <<"#">>)
    THEN [valid |-> v, errors |-> Append(e, error_line(n, s, "comment")),
          ret |-> NoReturn]
    ELSE IF r.err # None /\ r.err[1] # ""
    THEN [valid |-> v, errors |-> Append(e, error_line(n, s, r.err[1])), ret |-> r]
    ELSE [valid |-> Append(v, r.flight[1]), errors |-> e, ret |-> r]

process_line(n, ln, v, e) == line_outcome(n, strip(ln), validate_flight_row(ln, n), v, e)

Processed(ln, out) ==
    /\ line' = ln
    /\ ret' = out.ret
    /\ valid' = out.valid
    /\ errors' = out.errors

Ended(outcome, lines_read) ==
    log' = Append(log, [path |-> path[1], outcome |-> outcome,
                        lines |-> lines_read,
                        valid |-> Len(valid) - opened.valid,
                        errors |-> Len(errors) - opened.errors])

\* open(path) succeeds
PcfOpen ==
    /\ pc = "pcf_open"
    /\ pc' = "pcf_for"
    /\ line_number' = 0
    /\ UNCHANGED <<stack, given, line, ret, todo, path, valid, errors,
                   opened, log, nread, query_state,
                   process_state>>

\* open(path) raises: except: pass
PcfOpenFails ==
    /\ pc = "pcf_open"
    /\ Return
    /\ Ended("open_failed", 0)
    /\ path' = None
    /\ UNCHANGED <<given, line, ret, todo, line_number, valid, errors,
                   opened, nread, query_state,
                   process_state>>

\* the file yields its next line
PcfLine ==
    /\ pc = "pcf_for"
    /\ nread < MaxRead
    /\ \E ln \in env.lines : Processed(ln, process_line(line_number + 1, ln, valid, errors))
    /\ line_number' = line_number + 1
    /\ nread' = nread + 1
    /\ UNCHANGED <<pc, stack, given, todo, path, opened, log, query_state, process_state>>

\* reading the next line raises and nothing catches it
PcfReadFailsUncaught ==
    /\ pc = "pcf_for"
    /\ pc' = "raised"
    /\ Ended("read_failed", line_number)
    /\ path' = None
    /\ UNCHANGED <<stack, given, line, ret, todo, line_number, valid,
                   errors, opened, nread, query_state,
                   process_state>>

\* reading the next line raises: except: pass
PcfReadFails ==
    /\ pc = "pcf_for"
    /\ Return
    /\ Ended("read_failed", line_number)
    /\ path' = None
    /\ UNCHANGED <<given, line, ret, todo, line_number, valid, errors,
                   opened, nread, query_state,
                   process_state>>

\* the file is exhausted
PcfEnd ==
    /\ pc = "pcf_for"
    /\ Return
    /\ Ended("read", line_number)
    /\ path' = None
    /\ UNCHANGED <<given, line, ret, todo, line_number, valid, errors,
                   opened, nread, query_state,
                   process_state>>

-----------------------------------------------------------------------------
(* parse_input_sources(csv_file, folder)                                   *)

CallParseCsvFile(p, return_to) ==
    /\ Call("pcf_open", return_to)
    /\ path' = Some(p)
    /\ opened' = [valid |-> Len(valid), errors |-> Len(errors)]

\* valid = []; errors = []
PisBegin ==
    /\ pc = "pis_begin"
    /\ valid' = <<>>
    /\ errors' = <<>>
    /\ pc' = "pis_csv"
    /\ UNCHANGED <<stack, given, line, ret, todo, path, line_number,
                   opened, log, nread, query_state,
                   process_state>>

\* if csv_file: parse_csv_file(csv_file, valid, errors)
PisCsvFile ==
    /\ pc = "pis_csv"
    /\ IF truthy(args.input)
       THEN CallParseCsvFile(args.input[1], "pis_folder")
       ELSE pc' = "pis_folder" /\ UNCHANGED <<stack, path, opened>>
    /\ UNCHANGED <<given, line, ret, todo, line_number, valid, errors,
                   log, nread, query_state, process_state>>

\* if folder: the paths of sorted(glob.glob(pattern))
PisFolder ==
    /\ pc = "pis_folder"
    /\ todo' = IF truthy(args.directory)
               THEN sorted(glob(path_join(args.directory[1], Chars("*.csv"))))
               ELSE <<>>
    /\ pc' = "pis_for"
    /\ UNCHANGED <<stack, given, line, ret, path, line_number, valid,
                   errors, opened, log, nread, query_state, process_state>>

\* for p in ...: parse_csv_file(p, valid, errors)
PisNextPath ==
    /\ pc = "pis_for"
    /\ todo # <<>>
    /\ CallParseCsvFile(Head(todo), "pis_for")
    /\ todo' = Tail(todo)
    /\ UNCHANGED <<given, line, ret, line_number, valid, errors, log,
                   nread, query_state, process_state>>

\* return valid, errors
PisReturn ==
    /\ pc = "pis_for"
    /\ todo = <<>>
    /\ Return
    /\ UNCHANGED <<given, line, ret, todo, path, line_number, valid,
                   errors, opened, log, nread, query_state, process_state>>

-----------------------------------------------------------------------------
(* A direct call of validate_flight_row(line, line_number)                 *)

ValidateFlightRow ==
    /\ pc = "vfr_call"
    /\ ret' = validate_flight_row(line, line_number)
    /\ Return
    /\ UNCHANGED <<given, line, todo, path, line_number, valid, errors,
                   opened, log, nread, query_state,
                   process_state>>

-----------------------------------------------------------------------------
(* flight_matches_query(flight, q)                                         *)

\* float(x) of a value read from json: None when it raises
py_float(v) == IF v.t = "num" THEN Some(v.n) ELSE float_of_str(v.s)

\* parse_datetime(x) of a value read from json: None when it raises
\* (strptime of a number raises TypeError)
py_datetime(v) == IF v.t = "str" THEN parse_datetime(v.s) ELSE None

\* a != b on values read from json
py_ne(a, b) ==
    IF a.t = "num" /\ b.t = "num" THEN ~float_eq(a.n, b.n) ELSE a # b

\* Each try block returns False: when a conversion raises, or on the test
price_returns_false(mine, bound) ==
    IF mine = None \/ bound = None THEN TRUE ELSE float_gt(mine[1], bound[1])

departure_returns_false(mine, bound) ==
    IF mine = None \/ bound = None THEN TRUE ELSE datetime_lt(mine[1], bound[1])

arrival_returns_false(mine, bound) ==
    IF mine = None \/ bound = None THEN TRUE ELSE datetime_lt(bound[1], mine[1])

flight_matches_query(fl, qq) ==
    IF "flight_id" \in DOMAIN qq /\ py_ne(fl.flight_id, qq["flight_id"]) THEN FALSE
    ELSE IF "origin" \in DOMAIN qq /\ py_ne(fl.origin, qq["origin"]) THEN FALSE
    ELSE IF "destination" \in DOMAIN qq /\ py_ne(fl.destination, qq["destination"])
    THEN FALSE
    ELSE IF "price" \in DOMAIN qq
            /\ price_returns_false(py_float(fl.price), py_float(qq["price"]))
    THEN FALSE
    ELSE IF "departure_datetime" \in DOMAIN qq
            /\ departure_returns_false(py_datetime(fl.departure_datetime),
                                       py_datetime(qq["departure_datetime"]))
    THEN FALSE
    ELSE IF "arrival_datetime" \in DOMAIN qq
            /\ arrival_returns_false(py_datetime(fl.arrival_datetime),
                                     py_datetime(qq["arrival_datetime"]))
    THEN FALSE
    ELSE TRUE

\* A direct call of flight_matches_query(flight, q)
FlightMatchesQuery ==
    /\ pc = "fmq_call"
    /\ matched' = Some(flight_matches_query(flight, q))
    /\ Return
    /\ UNCHANGED <<given, line, ret, todo, path, line_number, valid, errors, opened,
                   log, nread, db, queries, results, flight, q, process_state>>

-----------------------------------------------------------------------------
(* run_queries_and_save(db, query_path, out_path=None)                     *)

\* load_queries: a dict becomes the list of that one dict
load_queries(data) == IF data.dict THEN <<data.items[1]>> ELSE data.items

\* [f for f in db if flight_matches_query(f, q)]
matches_of(store, qq) == SelectSeq(store, LAMBDA f : flight_matches_query(f, qq))

\* results with the new entry in front
with_result_in_front(res, qq, matches) == <<[query |-> qq, matches |-> matches]>> \o res

\* results.append({"query": q, "matches": matches})
with_result(res, qq, matches) == Append(res, [query |-> qq, matches |-> matches])

\* response_{student_id}{first_name}{last_name}_{ts}.json at the minute ts
build_response_filename(ts) ==
    "response_" \o "241ADB088" \o "Challa" \o "Navaneeth_Reddy" \o "_" \o ts \o ".json"

Now == "20240101_0800"

\* queries = load_queries(query_path); results = []
RqsLoad ==
    /\ pc = "rqs_begin"
    /\ queries' = load_queries(env.queries)
    /\ results' = <<>>
    /\ pc' = "rqs_for"
    /\ UNCHANGED <<stack, given, line, ret, todo, path, line_number, valid, errors,
                   opened, log, nread, db, flight, q, matched, process_state>>

\* for q in queries: one turn of the loop
RqsQuery ==
    /\ pc = "rqs_for"
    /\ Len(results) < Len(queries)
    /\ q' = queries[Len(results) + 1]
    /\ results' = with_result(results, q', matches_of(db, q'))
    /\ UNCHANGED <<pc, stack, given, line, ret, todo, path, line_number, valid,
                   errors, opened, log, nread, db, queries, flight, matched,
                   process_state>>

\* the loop is over: json.dump(results) to the response file
RqsSave ==
    /\ pc = "rqs_for"
    /\ Len(results) = Len(queries)
    /\ files' = Append(files, [name |-> build_response_filename(Now),
                               kind |-> "results", size |-> Len(results)])
    /\ Return
    /\ UNCHANGED <<given, line, ret, todo, path, line_number, valid, errors, opened,
                   log, nread, query_state, stdout, exit_code, used_csv>>

-----------------------------------------------------------------------------
(* main() and the guard at the end of the module                           *)

DEFAULT_DB_JSON == "db.json"
DEFAULT_ERRORS_TXT == "errors.txt"

\* if __name__ == "_main_": main()
ModuleGuard ==
    /\ pc = "module"
    /\ IF modname = "_main_"
       THEN Call("main_begin", "module_end")
       ELSE pc' = "module_end" /\ UNCHANGED stack
    /\ UNCHANGED <<given, line, ret, todo, path, line_number, valid, errors, opened,
                   log, nread, query_state, process_state>>

\* The end of the module: a script ends there with status 0, an importer
\* goes on with the module loaded
ModuleEnd ==
    /\ pc = "module_end"
    /\ IF modname = "__main__"
       THEN pc' = "exited" /\ exit_code' = Some(0)
       ELSE pc' = "imported" /\ UNCHANGED exit_code
    /\ UNCHANGED <<stack, given, line, ret, todo, path, line_number, valid, errors,
                   opened, log, nread, query_state, stdout, files, used_csv>>

\* The importer calls main()
ImporterCallsMain ==
    /\ pc = "imported"
    /\ Call("main_begin", "importer")
    /\ UNCHANGED <<given, line, ret, todo, path, line_number, valid, errors, opened,
                   log, nread, query_state, process_state>>

\* Lines 214 to 224: the db is loaded, or the sources are parsed, or there is
\* neither and the process exits with 1
MainBegin ==
    /\ pc = "main_begin"
    /\ IF truthy(args.json_db)
       THEN /\ db' = env.store
            /\ pc' = "main_query"
            /\ UNCHANGED <<stack, stdout, exit_code>>
       ELSE IF ~truthy(args.input) /\ ~truthy(args.directory)
       THEN /\ stdout' = Append(stdout, "ERROR: provide -i, -d, or -j")
            /\ exit_code' = Some(1)
            /\ pc' = "exited"
            /\ db' = <<>>
            /\ UNCHANGED stack
       ELSE /\ Call("pis_begin", "main_save")
            /\ db' = <<>>
            /\ UNCHANGED <<stdout, exit_code>>
    /\ used_csv' = FALSE
    /\ UNCHANGED <<given, line, ret, todo, path, line_number, valid, errors, opened,
                   log, nread, queries, results, flight, q, matched, files>>

\* Lines 224 to 229: the db and the error lines are saved
MainSave ==
    /\ pc = "main_save"
    /\ db' = valid
    /\ used_csv' = TRUE
    /\ files' = files
          \o <<[name |-> IF truthy(args.output) THEN Text(args.output[1])
                         ELSE DEFAULT_DB_JSON,
                kind |-> "db", size |-> Len(valid)],
               [name |-> DEFAULT_ERRORS_TXT, kind |-> "errors", size |-> Len(errors)]>>
    /\ pc' = "main_query"
    /\ UNCHANGED <<stack, given, line, ret, todo, path, line_number, valid, errors,
                   opened, log, nread, queries, results, flight, q, matched, stdout,
                   exit_code>>

\* if args.query: run_queries_and_save(db, args.query)
MainQuery ==
    /\ pc = "main_query"
    /\ IF truthy(args.query)
       THEN Call("rqs_begin", "main_end")
       ELSE pc' = "main_end" /\ UNCHANGED stack
    /\ UNCHANGED <<given, line, ret, todo, path, line_number, valid, errors, opened,
                   log, nread, query_state, process_state>>

\* Lines 234 and 235, and the return of main
MainEnd ==
    /\ pc = "main_end"
    /\ stdout' = IF ~truthy(args.query) /\ ~used_csv
                 THEN Append(stdout, "Loaded JSON DB; no queries executed.")
                 ELSE stdout
    /\ Return
    /\ UNCHANGED <<given, line, ret, todo, path, line_number, valid, errors, opened,
                   log, nread, query_state, files, exit_code, used_csv>>

\* The process ends once main has returned to whoever called it
ProcessEnds ==
    /\ pc = "importer"
    /\ pc' = "exited"
    /\ exit_code' = Some(0)
    /\ UNCHANGED <<stack, given, line, ret, todo, path, line_number, valid, errors,
                   opened, log, nread, query_state, stdout, files, used_csv>>

-----------------------------------------------------------------------------
(* Inputs                                                                  *)

RowIds == {Chars("AB12"), Chars("A"), Chars("AB-1")}
RowOrigins == {Chars("JFK"), Chars("jfk"), Chars("JF")}
RowDestinations == {Chars("LAX"), Chars("LA1")}
RowTimes == {Chars("2024-01-01 08:00"), Chars("2024-01-01 10:00"),
             Chars("2024-1-1 8:00"), Chars("2024-02-30 10:00"), Chars("soon")}
RowPrices == {Chars("100"), Chars("0"), Chars("-10"), Chars("abc"), Chars("nan"),
              Chars("1.5")}
RowPads == {<<>>, <<" ">>}

RECURSIVE comma_joined(_)
comma_joined(fields) ==
    IF Len(fields) = 1 THEN fields[1]
    ELSE fields[1] \o <<",">> \o comma_joined(Tail(fields))

\* Lines of five, six and seven fields, padded or not, as a file yields them
RowLines ==
    { comma_joined([i \in 1..n |-> pad \o (six \o <<Chars("x")>>)[i] \o pad]) \o <<"\n">> :
        six \in RowIds \X RowOrigins \X RowDestinations \X RowTimes \X RowTimes
                    \X RowPrices,
        pad \in RowPads, n \in {5, 6, 7} }

\* The lines the files of the environment are made of
IngestLines ==
    { Chars("\n"),
      Chars("flight_id,origin,destination,departure_datetime,arrival_datetime,price\n"),
      Chars("# flight_id list\n"),
      Chars("  #note\n"),
      Chars("AB12,JFK,LAX,2024-01-01 08:00,2024-01-01 10:00,100\n"),
      Chars("AB12,JFK,LAX,2024-01-01 10:00,2024-01-01 08:00,100\n"),
      Chars("ZZ9,LHR,CDG,2024-03-01 09:30,2024-03-01 11:00,nan\n") }

\* A query file holding an empty list
NoQueries == [dict |-> FALSE, items |-> <<>>]

NoArgs == [input |-> None, directory |-> None, output |-> None, json_db |-> None,
           query |-> None]

NoFlight == [flight_id |-> JStr(<<>>), origin |-> JStr(<<>>),
             destination |-> JStr(<<>>), departure_datetime |-> JStr(<<>>),
             arrival_datetime |-> JStr(<<>>), price |-> JNum(NaN)]

\* Nothing ingested, nothing queried, nothing printed or written yet
IngestAtRest ==
    /\ todo = <<>>
    /\ path = None
    /\ valid = <<>>
    /\ errors = <<>>
    /\ opened = [valid |-> 0, errors |-> 0]
    /\ log = <<>>
    /\ nread = 0

QueryAtRest ==
    /\ db = <<>>
    /\ queries = <<>>
    /\ results = <<>>
    /\ flight = NoFlight
    /\ q = <<>>
    /\ matched = None

ProcessAtRest ==
    /\ stdout = <<>>
    /\ files = <<>>
    /\ exit_code = None
    /\ used_csv = FALSE

-----------------------------------------------------------------------------
(* validate_flight_row called on one line                                  *)

InitRow ==
    /\ pc = "vfr_call"
    /\ stack = <<"done">>
    /\ modname = "lab2"
    /\ args = NoArgs
    /\ env = [lines |-> {}, queries |-> NoQueries, store |-> <<>>]
    /\ line \in RowLines
    /\ line_number = 1
    /\ ret = NoReturn
    /\ IngestAtRest /\ QueryAtRest /\ ProcessAtRest

NextRow == ValidateFlightRow

SpecRow == InitRow /\ [][NextRow]_vars

-----------------------------------------------------------------------------
(* parse_input_sources called on an input file and a folder                *)

InitIngest ==
    /\ pc = "pis_begin"
    /\ stack = <<"done">>
    /\ modname = "lab2"
    /\ args \in {[NoArgs EXCEPT !.input = i, !.directory = d] :
                    i \in {None, Some(InputFile)}, d \in {None, Some(<<>>), Some(Folder)}}
    /\ env = [lines |-> IngestLines, queries |-> NoQueries, store |-> <<>>]
    /\ line = <<>>
    /\ line_number = 0
    /\ ret = NoReturn
    /\ IngestAtRest /\ QueryAtRest /\ ProcessAtRest

NextIngest ==
    \/ PisBegin \/ PisCsvFile \/ PisFolder \/ PisNextPath \/ PisReturn
    \/ PcfOpen \/ PcfOpenFails \/ PcfLine \/ PcfReadFails \/ PcfEnd

SpecIngest == InitIngest /\ [][NextIngest]_vars

-----------------------------------------------------------------------------
(* Stores and queries                                                      *)

Flight(id, origin, destination, dep, arr, price) ==
    [flight_id |-> JStr(Chars(id)), origin |-> JStr(Chars(origin)),
     destination |-> JStr(Chars(destination)),
     departure_datetime |-> JStr(Chars(dep)), arrival_datetime |-> JStr(Chars(arr)),
     price |-> price]

\* Records as ingestion stores them, the second from a line priced "nan"
FlightA == Flight("AB12", "JFK", "LAX", "2024-01-01 08:00", "2024-01-01 10:00",
                  JNum(Fin(100, 1)))
FlightB == Flight("ZZ9", "LHR", "CDG", "2024-03-01 09:30", "2024-03-01 11:00",
                  JNum(NaN))
\* A record of a store written by hand: load_db_json validates nothing
FlightC == Flight("AB12", "JFK", "LAX", "soon", "2024-01-01 10:00",
                  JStr(Chars("abc")))

Flights == {FlightA, FlightB, FlightC}

Opt(S) == {None} \cup {Some(v) : v \in S}

\* The values a query may give each key; "airline" is no recognized key
QueryChoices ==
    [flight_id : Opt({JStr(Chars("AB12"))}),
     origin : Opt({JStr(Chars("JFK")), JStr(Chars("LHR"))}),
     destination : Opt({JStr(Chars("LAX"))}),
     price : Opt({JNum(Fin(150, 1)), JNum(Fin(50, 1)), JStr(Chars("100")),
                  JNum(NaN), JStr(Chars("abc"))}),
     departure_datetime : Opt({JStr(Chars("2024-01-01 08:00")),
                               JStr(Chars("2024-01-01 09:00")), JStr(Chars("soon"))}),
     arrival_datetime : Opt({JStr(Chars("2024-01-01 10:00")),
                             JStr(Chars("2024-01-01 09:00")), JNum(Fin(10, 1))}),
     airline : Opt({JStr(Chars("XY"))})]

\* The dict of the keys chosen
Query(choice) == [k \in {k \in DOMAIN choice : choice[k] # None} |-> choice[k][1]]

MatchQueries == {Query(c) : c \in QueryChoices}

InitMatch ==
    /\ pc = "fmq_call"
    /\ stack = <<"done">>
    /\ modname = "lab2"
    /\ args = NoArgs
    /\ env = [lines |-> {}, queries |-> NoQueries, store |-> <<>>]
    /\ line = <<>>
    /\ line_number = 0
    /\ ret = NoReturn
    /\ IngestAtRest /\ ProcessAtRest
    /\ db = <<>>
    /\ queries = <<>>
    /\ results = <<>>
    /\ flight \in Flights
    /\ q \in MatchQueries
    /\ matched = None

NextMatch == FlightMatchesQuery

SpecMatch == InitMatch /\ [][NextMatch]_vars

MaxDb == 2
MaxQueries == 2

\* The sequences of at most n members of S
RECURSIVE SeqsUpTo(_, _)
SeqsUpTo(S, n) ==
    IF n = 0 THEN {<<>>}
    ELSE SeqsUpTo(S, n - 1) \cup {Append(s, x) : s \in SeqsUpTo(S, n - 1), x \in S}

RunQueries ==
    { <<>> @@ [price |-> JNum(Fin(150, 1))],
      <<>> @@ [price |-> JNum(Fin(50, 1)), airline |-> JStr(Chars("XY"))],
      <<>> @@ [origin |-> JStr(Chars("JFK"))],
      <<>> }

\* A query file holds one dict or a list of dicts
QueryFiles ==
    {[dict |-> TRUE, items |-> <<qq>>] : qq \in RunQueries}
        \cup {[dict |-> FALSE, items |-> qs] : qs \in SeqsUpTo(RunQueries, MaxQueries)}

InitQuery ==
    /\ pc = "rqs_begin"
    /\ stack = <<"done">>
    /\ modname = "lab2"
    /\ args = NoArgs
    /\ env \in {[lines |-> {}, queries |-> f, store |-> <<>>] : f \in QueryFiles}
    /\ line = <<>>
    /\ line_number = 0
    /\ ret = NoReturn
    /\ IngestAtRest /\ ProcessAtRest
    /\ db \in SeqsUpTo(Flights, MaxDb)
    /\ queries = <<>>
    /\ results = <<>>
    /\ flight = NoFlight
    /\ q = <<>>
    /\ matched = None

NextQuery == RqsLoad \/ RqsQuery \/ RqsSave

SpecQuery == InitQuery /\ [][NextQuery]_vars

-----------------------------------------------------------------------------
(* The program: lab2.py run as a script, or imported and main() called     *)

Line(str) == Chars(str) \o <<"\n">>

MainLines == {Line("AB12,JFK,LAX,2024-01-01 08:00,2024-01-01 10:00,100"),
              Line("#note")}

MainArgs ==
    [input : Opt({InputFile}), directory : Opt({Folder}),
     output : Opt({Chars("out.json")}), json_db : Opt({Chars("db.json")}),
     query : Opt({Chars("q.json")})]

Init ==
    /\ pc = "module"
    /\ stack = <<>>
    /\ modname \in {"__main__", "lab2"}
    /\ args \in MainArgs
    /\ env = [lines |-> MainLines,
              queries |-> [dict |-> TRUE, items |-> <<[price |-> JNum(Fin(150, 1))]>>],
              store |-> <<FlightA, FlightB>>]
    /\ line = <<>>
    /\ line_number = 0
    /\ ret = NoReturn
    /\ IngestAtRest /\ QueryAtRest /\ ProcessAtRest

Next ==
    \/ ModuleGuard \/ ModuleEnd \/ ImporterCallsMain
    \/ MainBegin \/ MainSave \/ MainQuery \/ MainEnd \/ ProcessEnds
    \/ PisBegin \/ PisCsvFile \/ PisFolder \/ PisNextPath \/ PisReturn
    \/ PcfOpen \/ PcfOpenFails \/ PcfLine \/ PcfReadFails \/ PcfEnd
    \/ RqsLoad \/ RqsQuery \/ RqsSave

Spec == Init /\ [][Next]_vars

-----------------------------------------------------------------------------
(* What the properties say of a line, read off the line itself             *)

Commas(l) == {i \in DOMAIN l : l[i] = ","}
FieldCount(l) == Cardinality(Commas(l)) + 1

\* The k-th comma of l
Comma(l, k) == CHOOSE i \in Commas(l) : Cardinality({j \in Commas(l) : j < i}) = k - 1

\* The text between the (k-1)-th and the k-th comma
Field(l, k) ==
    SubSeq(l, IF k = 1 THEN 1 ELSE Comma(l, k - 1) + 1,
              IF k = FieldCount(l) THEN Len(l) ELSE Comma(l, k) - 1)

\* s without the whitespace around it
Trimmed(s) ==
    LET inked == {i \in DOMAIN s : s[i] \notin Whitespace}
    IN  IF inked = {} THEN <<>>
        ELSE SubSeq(s, CHOOSE i \in inked : \A j \in inked : i <= j,
                       CHOOSE i \in inked : \A j \in inked : j <= i)

TF(l, k) == Trimmed(Field(l, k))

IsFlightId(s) ==
    Len(s) \in 2..8 /\ \A i \in DOMAIN s : s[i] \in Upper \cup Lower \cup Digit

IsAirportCode(s) == Len(s) = 3 /\ \A i \in DOMAIN s : s[i] \in Upper

\* The number written by the digits of s at positions i..j
Number(s, i, j) == digits_value(SubSeq(s, i, j))

\* s is YYYY-MM-DD HH:MM and names a minute of the calendar
IsTimestamp(s) ==
    /\ Len(s) = 16
    /\ \A i \in {1, 2, 3, 4, 6, 7, 9, 10, 12, 13, 15, 16} : s[i] \in Digit
    /\ s[5] = "-" /\ s[8] = "-" /\ s[11] = " " /\ s[14] = ":"
    /\ Number(s, 1, 4) >= 1
    /\ Number(s, 6, 7) \in 1..12
    /\ Number(s, 9, 10) \in 1..days_in_month(Number(s, 1, 4), Number(s, 6, 7))
    /\ Number(s, 12, 13) \in 0..23
    /\ Number(s, 15, 16) \in 0..59

\* The minute a timestamp of that form names: year, month, day, hour, minute
Minute(s) ==
    <<Number(s, 1, 4), Number(s, 6, 7), Number(s, 9, 10), Number(s, 12, 13),
      Number(s, 15, 16)>>

\* Minute a is before minute b
Before(a, b) ==
    \E i \in 1..5 : a[i] < b[i] /\ \A j \in 1..5 : j < i => a[j] = b[j]

Digits(s) == {i \in DOMAIN s : s[i] \in Digit}
Points(s) == {i \in DOMAIN s : s[i] = "."}

\* s is a decimal numeral above zero
IsPositiveNumber(s) ==
    /\ Cardinality(Points(s)) <= 1
    /\ Digits(s) \cup Points(s) = DOMAIN s
    /\ \E i \in Digits(s) : s[i] # "0"

\* The float x is the number the decimal numeral s writes
IsValueOf(x, s) ==
    LET digits == SelectSeq(s, LAMBDA c : c \in Digit)
        places == IF Points(s) = {} THEN 0
                  ELSE Len(s) - (CHOOSE i \in Points(s) : TRUE)
    IN  x.kind = "fin" /\ x.num * pow10(places) = digits_value(digits) * x.den

\* needle occurs in the string text
Occurs(needle, text) ==
    \E i \in 1..(Len(text) - Len(needle) + 1) :
        SubSeq(text, i, i + Len(needle) - 1) = needle

RowReturned == pc = "done" /\ stack = <<>> /\ line # <<>>

MeetsEveryConstraint(l) ==
    /\ FieldCount(l) = 6
    /\ IsFlightId(TF(l, 1))
    /\ IsAirportCode(TF(l, 2)) /\ IsAirportCode(TF(l, 3))
    /\ IsTimestamp(TF(l, 4)) /\ IsTimestamp(TF(l, 5))
    /\ Before(Minute(TF(l, 4)), Minute(TF(l, 5)))
    /\ IsPositiveNumber(TF(l, 6))

\* C1: a six-field line whose trimmed fields meet every constraint and whose
\* arrival is after its departure gives a record and no error; the record
\* holds the trimmed strings and the price as the number parsed.
C1_ValidRowAccepted ==
    (RowReturned /\ MeetsEveryConstraint(line)) =>
        /\ ret.err = None
        /\ ret.flight # None
        /\ ret.flight[1].flight_id = JStr(TF(line, 1))
        /\ ret.flight[1].origin = JStr(TF(line, 2))
        /\ ret.flight[1].destination = JStr(TF(line, 3))
        /\ ret.flight[1].departure_datetime = JStr(TF(line, 4))
        /\ ret.flight[1].arrival_datetime = JStr(TF(line, 5))
        /\ ret.flight[1].price.t = "num"
        /\ IsValueOf(ret.flight[1].price.n, TF(line, 6))

\* A padded line with a fractional price was accepted
C1_Witness ==
    /\ RowReturned /\ MeetsEveryConstraint(line)
    /\ Field(line, 1) # TF(line, 1)
    /\ TF(line, 6) = Chars("1.5")
    /\ ret.flight # None
    /\ ret.flight[1].price.n = Fin(15, 10)

\* C3: a line that does not split into six fields gives no record and
\* exactly the reason "missing required fields", whatever its fields hold.
C3_WrongFieldCount ==
    (RowReturned /\ FieldCount(line) # 6) =>
        ret = [flight |-> None, err |-> Some("missing required fields")]

\* A line of seven fields, the first of them no flight id, was rejected so
C3_Witness ==
    /\ RowReturned /\ FieldCount(line) = 7
    /\ ~IsFlightId(TF(line, 1))
    /\ ret.err = Some("missing required fields")

\* The reasons of the checks that fail on the six trimmed fields of l, in
\* the order of the checks
FailingReasons(l) ==
    (IF ~is_alnum_len(TF(l, 1), 2, 8) THEN <<"invalid flight_id">> ELSE <<>>)
    \o (IF ~is_airport_code(TF(l, 2)) THEN <<"invalid origin">> ELSE <<>>)
    \o (IF ~is_airport_code(TF(l, 3)) THEN <<"invalid destination">> ELSE <<>>)
    \o (IF parse_datetime(TF(l, 4)) = None THEN <<"invalid departure_datetime">> ELSE <<>>)
    \o (IF parse_datetime(TF(l, 5)) = None THEN <<"invalid arrival_datetime">> ELSE <<>>)
    \o (IF Occurs("arrival must be after departure", ret.err[1])
        THEN <<"arrival must be after departure">> ELSE <<>>)
    \o (IF validate_price(TF(l, 6)).raised THEN <<validate_price(TF(l, 6)).msg>> ELSE <<>>)

\* C4: on a six-field line every field check runs, and the reason returned
\* is the reasons of all the checks that fail, joined with "; ": an earlier
\* failure does not suppress a later one.
C4_AllReasonsCollected ==
    (RowReturned /\ FieldCount(line) = 6 /\ ret.err # None) =>
        /\ ret.flight = None
        /\ ret.err[1] = join("; ", FailingReasons(line))
        /\ ~is_alnum_len(TF(line, 1), 2, 8) => Occurs("invalid flight_id", ret.err[1])
        /\ ~is_airport_code(TF(line, 2)) => Occurs("invalid origin", ret.err[1])
        /\ ~is_airport_code(TF(line, 3)) => Occurs("invalid destination", ret.err[1])
        /\ parse_datetime(TF(line, 4)) = None
              => Occurs("invalid departure_datetime", ret.err[1])
        /\ parse_datetime(TF(line, 5)) = None
              => Occurs("invalid arrival_datetime", ret.err[1])
        /\ validate_price(TF(line, 6)).raised
              => Occurs(validate_price(TF(line, 6)).msg, ret.err[1])

\* All six field checks failed on one line and all six reasons came back
C4_Witness ==
    /\ RowReturned /\ FieldCount(line) = 6
    /\ ret.err = Some("invalid flight_id; invalid origin; invalid destination; "
                      \o "invalid departure_datetime; invalid arrival_datetime; "
                      \o "could not convert string to float: 'abc'")

\* C5: on a six-field line the reason "arrival must be after departure" is
\* in the result exactly when both timestamps parse and the arrival is not
\* after the departure; it is never there when a timestamp fails to parse.
C5_ArrivalAfterDeparture ==
    (RowReturned /\ FieldCount(line) = 6) =>
        ((ret.err # None /\ Occurs("arrival must be after departure", ret.err[1]))
         <=> /\ parse_datetime(TF(line, 4)) # None
             /\ parse_datetime(TF(line, 5)) # None
             /\ ~datetime_lt(parse_datetime(TF(line, 4))[1],
                             parse_datetime(TF(line, 5))[1]))

\* Arrival and departure written differently but the same minute: rejected
C5_Witness ==
    /\ RowReturned /\ FieldCount(line) = 6
    /\ TF(line, 4) = Chars("2024-01-01 08:00")
    /\ TF(line, 5) = Chars("2024-1-1 8:00")
    /\ ret.err # None
    /\ Occurs("arrival must be after departure", ret.err[1])

-----------------------------------------------------------------------------
(* Ingestion                                                               *)

IsPrefix(a, b) == Len(a) <= Len(b) /\ SubSeq(b, 1, Len(a)) = a

\* A record every check of which passes
IsValidRecord(r) ==
    /\ r.flight_id.t = "str" /\ IsFlightId(r.flight_id.s)
    /\ r.origin.t = "str" /\ IsAirportCode(r.origin.s)
    /\ r.destination.t = "str" /\ IsAirportCode(r.destination.s)
    /\ r.departure_datetime.t = "str" /\ parse_datetime(r.departure_datetime.s) # None
    /\ r.arrival_datetime.t = "str" /\ parse_datetime(r.arrival_datetime.s) # None
    /\ datetime_lt(parse_datetime(r.departure_datetime.s)[1],
                   parse_datetime(r.arrival_datetime.s)[1])
    /\ r.price.t = "num" /\ float_gt(r.price.n, Zero)

\* C2: every record in the valid sequence passes every check, its price
\* above zero included, and validate_flight_row returns either a record and
\* no error or no record and a reason that is not empty.
C2_OnlyValidRecords ==
    /\ \A i \in DOMAIN valid : IsValidRecord(valid[i])
    /\ ret # NoReturn =>
          \/ ret.flight # None /\ ret.err = None
          \/ ret.flight = None /\ ret.err # None /\ ret.err[1] # ""

\* C2 apart from the price: what holds of the records all the same
C2_ValidButForPrice ==
    /\ \A i \in DOMAIN valid :
          \/ IsValidRecord(valid[i])
          \/ IsValidRecord([valid[i] EXCEPT !.price = JNum(Fin(1, 1))])
    /\ ret # NoReturn =>
          \/ ret.flight # None /\ ret.err = None
          \/ ret.flight = None /\ ret.err # None /\ ret.err[1] # ""

Failures == {"open_failed", "read_failed"}

\* C6 as stated: a source whose open or read fails adds nothing to either
\* sequence, also when the read fails after lines of it were processed.
C6_FailedSourceAddsNothing ==
    \A i \in DOMAIN log :
        log[i].outcome \in Failures => log[i].valid = 0 /\ log[i].errors = 0

\* The step is the end of a parse_csv_file call
CallEnds == Len(log') = Len(log) + 1

\* C6 amended: a source that cannot be opened adds nothing; a read that
\* fails leaves in place what the lines before it appended and adds nothing
\* more; either way control goes back to parse_input_sources with the paths
\* still to do untouched, nothing printed and no exit.
C6_FailureKeepsWhatWasRead ==
    /\ [](\A i \in DOMAIN log :
            /\ log[i].outcome = "open_failed" =>
                  log[i].lines = 0 /\ log[i].valid = 0 /\ log[i].errors = 0
            /\ log[i].valid + log[i].errors <= log[i].lines)
    /\ [][(CallEnds /\ log'[Len(log')].outcome \in Failures) =>
            /\ valid' = valid /\ errors' = errors
            /\ pc' \in {"pis_folder", "pis_for"}
            /\ todo' = todo
            /\ stdout' = stdout /\ exit_code' = None]_vars

\* A read failed after a line of the source had been stored, and the next
\* source was read all the same
C6_Witness ==
    /\ Len(log) = 2
    /\ log[1].outcome = "read_failed" /\ log[1].valid = 1
    /\ log[2].outcome = "read" /\ log[2].errors = 1
    /\ Len(valid) = 1 /\ Len(errors) = 1

RECURSIVE LinesOf(_)
LinesOf(entries) ==
    IF entries = <<>> THEN 0 ELSE entries[1].lines + LinesOf(Tail(entries))

\* The step reads a line; its number is its position in the file being read
LineRead == nread' = nread + 1
Position == nread' - LinesOf(log)

HasFlightId(s) == \E i \in 1..(Len(s) - 8) : SubSeq(s, i, i + 8) = Chars("flight_id")

Entry(n, s, reason) == "Line " \o ToString(n) \o ": " \o Text(s) \o " -> " \o reason

\* What reading the line l at position n does to the two sequences, s
\* being l trimmed
EffectOf(n, l, s) ==
    IF s = <<>> THEN valid' = valid /\ errors' = errors
    ELSE IF n = 1 /\ HasFlightId(s) THEN valid' = valid /\ errors' = errors
    ELSE IF s[1] = "#"
    THEN /\ valid' = valid
         /\ errors' = Append(errors, Entry(n, s, "comment"))
         /\ ret' = NoReturn
    ELSE /\ ret' = validate_flight_row(l, n)
         /\ \/ /\ ret'.flight # None /\ ret'.err = None
               /\ valid' = Append(valid, ret'.flight[1])
               /\ errors' = errors
            \/ /\ ret'.flight = None /\ ret'.err # None
               /\ valid' = valid
               /\ errors' = Append(errors, Entry(n, s, ret'.err[1]))

LineEffect(n, l) == EffectOf(n, l, Trimmed(l))

\* C10: each line read does exactly one thing, by its position n in its
\* file: a blank line and a first line holding "flight_id" append nothing; a
\* line starting with "#" appends "Line n: <trimmed> -> comment" and is not
\* validated; any other line, one holding "flight_id" past position 1
\* included, appends one record or one "Line n: <trimmed> -> <reasons>".
\* No step changes or removes an entry already there.
C10_OneOutcomePerLine ==
    /\ [][LineRead => LineEffect(Position, line')]_vars
    /\ [][IsPrefix(valid, valid') /\ IsPrefix(errors, errors')]_vars

\* A comment on line 1 and a header line on line 2 of one file: one
\* comment entry, and the header line validated and rejected
C10_Witness ==
    /\ Len(errors) = 2 /\ valid = <<>>
    /\ errors[1] = "Line 1: #note -> comment"
    /\ Occurs("Line 2: flight_id,origin,", errors[2])
    /\ Occurs(" -> invalid flight_id; invalid origin; ", errors[2])

-----------------------------------------------------------------------------
(* Queries                                                                 *)

Has(qq, key) == key \in DOMAIN qq

\* The check the claim gives each recognized key
PassesPrice(fl, qq) ==
    /\ py_float(fl.price) # None /\ py_float(qq["price"]) # None
    /\ float_le(py_float(fl.price)[1], py_float(qq["price"])[1])

PassesDeparture(fl, qq) ==
    /\ py_datetime(fl.departure_datetime) # None
    /\ py_datetime(qq["departure_datetime"]) # None
    /\ datetime_le(py_datetime(qq["departure_datetime"])[1],
                   py_datetime(fl.departure_datetime)[1])

PassesArrival(fl, qq) ==
    /\ py_datetime(fl.arrival_datetime) # None
    /\ py_datetime(qq["arrival_datetime"]) # None
    /\ datetime_le(py_datetime(fl.arrival_datetime)[1],
                   py_datetime(qq["arrival_datetime"])[1])

PassesEveryKey(fl, qq) ==
    /\ Has(qq, "flight_id") => fl.flight_id = qq["flight_id"]
    /\ Has(qq, "origin") => fl.origin = qq["origin"]
    /\ Has(qq, "destination") => fl.destination = qq["destination"]
    /\ Has(qq, "price") => PassesPrice(fl, qq)
    /\ Has(qq, "departure_datetime") => PassesDeparture(fl, qq)
    /\ Has(qq, "arrival_datetime") => PassesArrival(fl, qq)

MatchReturned == pc = "done" /\ matched # None

\* C7: flight_matches_query is true exactly when the record passes the
\* check of every recognized key the query holds: equality for flight_id,
\* origin and destination; both prices numbers and the record's at most the
\* query's; both departures parsed and the record's not before the query's;
\* both arrivals parsed and the record's not after the query's.
C7_MatchIffEveryKeyPasses ==
    MatchReturned => matched[1] = PassesEveryKey(flight, q)

\* C7 with the price check read as the code has it: the record is excluded
\* when a price fails to convert or the record's is above the query's
C7_MatchWithPriceNotAbove ==
    MatchReturned =>
        matched[1] =
            /\ PassesEveryKey(flight, [k \in DOMAIN q \ {"price"} |-> q[k]])
            /\ Has(q, "price") =>
                  /\ py_float(flight.price) # None /\ py_float(q["price"]) # None
                  /\ ~float_gt(py_float(flight.price)[1], py_float(q["price"])[1])

QueriesRun == pc = "done" /\ Len(files) = 1

\* The positions of the store whose record matches the query
Matching(store, qq) == {j \in DOMAIN store : flight_matches_query(store[j], qq)}

\* The k-th smallest member of a set of numbers
Nth(J, k) == CHOOSE j \in J : Cardinality({i \in J : i < j}) = k - 1

\* matches holds the matching records of the store, each once for each
\* position it has there, in the order of the positions
InStoreOrder(matches, store, qq) ==
    /\ Len(matches) = Cardinality(Matching(store, qq))
    /\ \A k \in DOMAIN matches : matches[k] = store[Nth(Matching(store, qq), k)]

\* C8: a run gives one result for each query of the input, in the order of
\* the input, each holding its query and the matching records in store
\* order with duplicates kept; a result depends on its own query and the
\* store alone; the store is not changed.
C8_OneResultPerQuery ==
    /\ [](QueriesRun =>
            /\ Len(results) = Len(env.queries.items)
            /\ \A i \in DOMAIN results :
                  /\ results[i].query = env.queries.items[i]
                  /\ InStoreOrder(results[i].matches, db, env.queries.items[i]))
    /\ [][db' = db]_vars

\* Two different queries run over a store holding one record twice: the
\* first result holds both copies, the second none
C8_Witness ==
    /\ QueriesRun
    /\ db = <<FlightA, FlightA>>
    /\ Len(results) = 2
    /\ results[1].query = <<>> @@ [price |-> JNum(Fin(150, 1))]
    /\ results[1].matches = <<FlightA, FlightA>>
    /\ results[2].query = <<>> @@ [price |-> JNum(Fin(50, 1)), airline |-> JStr(Chars("XY"))]
    /\ results[2].matches = <<>>

-----------------------------------------------------------------------------
(* The program                                                             *)

RunAsProgram == modname = "__main__"
NoSourceGiven ==
    ~truthy(args.input) /\ ~truthy(args.directory) /\ ~truthy(args.json_db)

\* C9: the program run with no input file, no input directory and no store
\* prints a diagnostic and exits with code 1, and writes no file.
C9_NoSourceExitsWithOne ==
    (RunAsProgram /\ NoSourceGiven /\ pc = "exited") =>
        /\ exit_code = Some(1)
        /\ stdout = <<"ERROR: provide -i, -d, or -j">>
        /\ files = <<>>

\* C9 of main() when it is called: what the guard keeps from happening
C9_MainExitsWithOne ==
    (~RunAsProgram /\ NoSourceGiven /\ pc = "exited") =>
        /\ exit_code = Some(1)
        /\ stdout = <<"ERROR: provide -i, -d, or -j">>
        /\ files = <<>>

====
